---- MODULE Spec2Model ----
(***************************************************************************)
(* nope-universal-cache: the tiered cache coordinator and its tiers.       *)
(*                                                                         *)
(* Modelled code:                                                          *)
(*   CacheManager, CacheManagerPromise      (cache-manager, part_003)      *)
(*   IndependentStoreCacheWrapper           (src/src/cache-wrapper.ts)     *)
(*   MemoryStore                            (stores/memory-store, part_000)*)
(*   msForTtl                               (src/src/util.ts)              *)
(*                                                                         *)
(* Time is counted in milliseconds.  A timer holds the time that remains   *)
(* until it is due; Tick lets one millisecond pass and is possible only    *)
(* when no armed timer is due, so a due timer runs before time moves on.   *)
(* Every await of the code is a point where other operations and timers    *)
(* may run.  A MemoryStore performs its effect inside the call, before the *)
(* promise it returns is awaited, so the effects of a tier call happen in  *)
(* the step that makes the call and the caller resumes in a later step.    *)
(***************************************************************************)
EXTENDS Integers, Sequences, FiniteSets, TLC

\* ------------------------------------------------------------- bounds ----
NumTiers == 2
\* set calls in flight at once, get calls in flight at once
MaxSets == 2
MaxGets == 1
\* calls the clients make in one behaviour
MaxCalls == 5
\* armed timers of replaced Entries, per key
MaxOrphans == 1
\* the age of a completed call is counted up to here
MaxAge == 3
\* The most milliseconds the timestamps of an Entry are told apart from now.
MaxStamp == 1
\* The ttl every tier wrapper is constructed with (options.ttl), in ms.
WrapperTtl == 2
\* The longest duration handed to updateTtl.
MaxUpdateTtl == 2

\* ---------------------------------------------------- program constants --
TIMEOUT_MAX == 2147483647

Tiers == 0 .. (NumTiers - 1)
SetSlots == 1 .. MaxSets
GetSlots == 1 .. MaxGets
Keys == {"foo"}
Values == {"bar", "baz"}
Failures == {"boom"}
TtlOptions == {2}

Undefined == "undefined"
NoSlot == 0
TypeError == "TypeError"

\* ------------------------------------------------------------ helpers ----
SetMax(S) == CHOOSE x \in S : \A y \in S : y <= x
SetMin(S) == CHOOSE x \in S : \A y \in S : x <= y

\* JS truthiness of a value read from a store: undefined and "" are falsy.
Truthy(v) == v # Undefined /\ v # ""

\* A number, as handed to setTimeout or msForTtl.
Num(n) == [t |-> "num", n |-> n]
\* A Ref object handed where a number is expected.
RefObj(n) == [t |-> "ref", n |-> n]

\* A ttl as the caller writes it: the number n * unit of milliseconds
\* (unit 1 for a number written out), or the duration string of n units,
\* which msFunction turns into that number ("25d" is 25 * 86400000).
TtlNumber(n, unit) == [n |-> n, unit |-> unit, str |-> FALSE]
TtlString(n, unit) == [n |-> n, unit |-> unit, str |-> TRUE]
\* if (options.ttl): the number 0 is falsy, a duration string is not.
TtlTruthy(v) == v.str \/ v.n # 0
\* v > 2147483647 for the number n * unit.  The product may lie beyond the
\* integers at hand, so n is compared with the quotient instead.
ExceedsMax(v) == v.n > TIMEOUT_MAX \div v.unit

\* msForTtl: a duration string goes through msFunction; the call throws when
\* the number exceeds the largest delay a timer takes, and returns the
\* number unchanged otherwise.
msForTtl(v) ==
  IF ExceedsMax(v)
  THEN [throws |-> TRUE, v |-> 0]
  ELSE [throws |-> FALSE, v |-> v.n * v.unit]

\* setTimeout(callback, after): the delay is coerced to a number (an object
\* that is not a number gives NaN) and anything outside 1 .. TIMEOUT_MAX,
\* NaN included, becomes 1.
TimerDelay(after) ==
  IF after.t = "num" /\ after.n >= 1 /\ after.n <= TIMEOUT_MAX
  THEN after.n
  ELSE 1

\* ------------------------------------------------------------- state -----
VARIABLES
  store,     \* store[i][k]: MemoryStore.entries of tier i
  wentries,  \* wentries[i][k]: IndependentStoreCacheWrapper.entries of tier i
  entries,   \* entries[k]: CacheManager.entries
  orphans,   \* orphans[k]: armed coordinator timers no Entry refers to
  mapping,   \* mapping[k]: CacheManagerPromise.mapping, by set call
  sets,      \* sets[s]: a set call of the coordinator, in flight or done
  gets,      \* gets[g]: a get call of the coordinator, in flight or done
  last,      \* last[k]: the last call on k that completed undisturbed
  latest,    \* latest[k]: the set call that registered a computation last
  calls,     \* the number of calls the clients have made
  probe,     \* a ttl option tried on a tier on its own, and what came of it
  kinds,     \* kinds[i]: the store tier i wraps, a MemoryStore or a FileStore
  dret,      \* the last del called on a tier on its own, and how it settled
  caches,    \* caches[i]: a tier of the CacheManager of part_005
  cget,      \* the get call of that CacheManager, in flight or done
  cset,      \* the set call of that CacheManager, in flight or done
  cupd,      \* the updateTtl call of that CacheManager, in flight or done
  refs,      \* refs[r]: the value of Ref r (reactive.ts); "c" is computed
  listeners, \* listeners[r]: how many listeners are hooked on Ref r
  heard,     \* heard[r]: the calls the last assignment made to r's listeners
  asg        \* the last assignment: the Ref, its value before, the new value

\* The state of the coordinator and its tiers.
inside ==
  <<store, wentries, entries, orphans, mapping, sets, gets, last, latest, calls>>
\* The state that the operations of the coordinator and its tiers leave alone.
flagged == <<caches, cget, cset, cupd>>
reactive == <<refs, listeners, heard, asg>>
deleting == <<kinds, dret>>
outside == <<probe, deleting, flagged, reactive>>
vars == <<inside, outside>>

NoProbe ==
  [pc |-> "none", tier |-> 0, key |-> "", ttl |-> TtlNumber(0, 1), threw |-> FALSE]

\* The stores a tier wraps.
StoreKinds == {"memory", "file"}
\* No del yet.  had: the store held the key when del was called; threw: the
\* promise of del rejected; ret: the boolean it resolved to otherwise.
NoDel ==
  [pc |-> "none", tier |-> 0, key |-> "", had |-> FALSE, threw |-> FALSE,
   ret |-> FALSE]

\* A CacheEntry (of a tier wrapper or of the coordinator): the value of its
\* ttl Ref and its timeout.  A timeout is "armed", with its delay and the
\* time that remains until it is due, "cancelled" by clearTimeout, or
\* "null" once its callback has set it to null.
\* createdAt and modifiedAt are kept as the milliseconds gone by since, up to
\* MaxStamp of them.
NoEntry ==
  [present |-> FALSE, ttl |-> 0, timeout |-> "none", delay |-> 0, rem |-> 0,
   createdAgo |-> 0, modifiedAgo |-> 0]
NewEntry(ttl, after) ==
  [present |-> TRUE, ttl |-> ttl, timeout |-> "armed",
   delay |-> TimerDelay(after), rem |-> TimerDelay(after),
   createdAgo |-> 0, modifiedAgo |-> 0]
Armed(e) == e.present /\ e.timeout = "armed"
\* clearTimeout(entry.timeout)
ClearTimeout(e) ==
  IF e.timeout = "armed" THEN [e EXCEPT !.timeout = "cancelled", !.rem = 0] ELSE e
\* entry.timeout.refresh(): an armed timer starts over with the delay it was
\* created with; a cancelled one stays cancelled.
Refresh(e) == IF e.timeout = "armed" THEN [e EXCEPT !.rem = e.delay] ELSE e

\* ---------------------------------------------- MemoryStore (part_000) ---
StoreCreate(st, k, v) == [st EXCEPT ![k] = v]
StoreRead(st, k) == st[k]
StoreUpdate(st, k, v) == [st EXCEPT ![k] = v]
StoreDelete(st, k) == [st EXCEPT ![k] = Undefined]
StoreClear(st) == [k \in Keys |-> Undefined]
\* MemoryStore.delete: what Map.delete returns, whether the key was there.
MemoryStoreDelete(st, k) == [threw |-> FALSE, ret |-> st[k] # Undefined]
\* FileStore.delete: await fsp.unlink(file); return true.  unlink rejects
\* with ENOENT when there is no file for the key.
FileStoreDelete(st, k) ==
  IF st[k] # Undefined
  THEN [threw |-> FALSE, ret |-> TRUE]
  ELSE [threw |-> TRUE, ret |-> FALSE]
\* this.store.delete(key) of a tier, by the store it wraps.
StoreDeleteSettles(kind, st, k) ==
  IF kind = "memory" THEN MemoryStoreDelete(st, k) ELSE FileStoreDelete(st, k)
\* this.entries.size, the number clear() returns.
StoreSize(st) == Cardinality({k \in Keys : st[k] # Undefined})


\* ------------------------- IndependentStoreCacheWrapper (cache-wrapper.ts) --
\* The options argument of set: absent or {ttl: n}.
NoOptions == [given |-> FALSE, hasTtl |-> FALSE, ttl |-> TtlNumber(0, 1)]
TtlOptionOf(v) == [given |-> TRUE, hasTtl |-> TRUE, ttl |-> v]
TtlOption(n) == TtlOptionOf(TtlNumber(n, 1))

\* A get whose refresh() would start a cancelled timer again.
WrapperGetRearms(e) ==
  IF e.present /\ e.timeout # "none"
  THEN [e EXCEPT !.timeout = "armed", !.rem = e.delay]
  ELSE e
\* get(key): refresh the entry's timer, read the store.
WrapperGetEntry(e) == IF e.present THEN Refresh(e) ELSE e

\* set(key, value, options) throws, before it changes anything, when the key
\* has no entry and options is undefined (options.ttl is read) or the ttl
\* is one msForTtl refuses.
WrapperSetThrows(e, opt) ==
  /\ ~e.present
  /\ \/ ~opt.given
     \/ opt.hasTtl /\ TtlTruthy(opt.ttl) /\ msForTtl(opt.ttl).throws

\* set(key, value, options), the entry it leaves: an existing entry has its
\* timer refreshed; a new entry gets Ref(0), or the ttl of the options, and
\* a timer whose delay argument is the Ref itself.
WrapperSetEntry(e, opt) ==
  IF e.present
  THEN Refresh(e)
  ELSE LET ttl == IF opt.hasTtl /\ TtlTruthy(opt.ttl)
                  THEN msForTtl(opt.ttl).v ELSE 0
       IN  NewEntry(ttl, RefObj(ttl))

\* The tier after set(key, value, options): [w, st, threw].
WrapperSet(w, st, k, v, opt) ==
  IF WrapperSetThrows(w[k], opt)
  THEN [w |-> w, st |-> st, threw |-> TRUE]
  ELSE [w |-> [w EXCEPT ![k] = WrapperSetEntry(w[k], opt)],
        st |-> IF w[k].present THEN StoreUpdate(st, k, v) ELSE StoreCreate(st, k, v),
        threw |-> FALSE]

\* A del that clears the timer and leaves the entry in the map.
WrapperDelKeeps(w, st, k) ==
  [w |-> [w EXCEPT ![k] = ClearTimeout(@)], st |-> StoreDelete(st, k)]
\* del(key): cancel the timer, drop the entry, delete from the store.
WrapperDel(w, st, k) ==
  [w |-> [w EXCEPT ![k] = NoEntry], st |-> StoreDelete(st, k)]

\* newEntry.timeout = null, of the entry whose timer ran: it shows in the
\* map if del has left that entry there.
NullTimeout(e) ==
  IF e.present THEN [e EXCEPT !.timeout = "null", !.rem = 0] ELSE e
\* The callback of an entry's timer: this.del(key); newEntry.timeout = null.
TimeoutCallback(w, st, k) ==
  LET r == WrapperDel(w, st, k)
  IN  [w |-> [r.w EXCEPT ![k] = NullTimeout(@)], st |-> r.st]

\* clear(): cancel every entry's timer (the entries stay), clear the store.
WrapperClear(w, st) ==
  [w |-> [k \in Keys |-> ClearTimeout(w[k])], st |-> StoreClear(st)]

\* ------------------------------------------------ calls in flight --------
NoResult == [st |-> "none", v |-> Undefined]
Fulfilled(v) == [st |-> "ok", v |-> v]
Rejected(f) == [st |-> "err", v |-> f]

\* A set call.  kind: "set" (a direct value) or "setp" (a computation);
\* comp: the computation, unsettled or settled; hadEntry: the Entry found at
\* the start of CacheManager.set; ok: no tier's set threw; wrote: set was
\* called on the tiers; res: how the promise of the call settled; conc:
\* another computation for the key was unresolved while this one was; sup:
\* for a direct value, the set call whose computation for the key was
\* unresolved when this call was made.
IdleSet ==
  [kind |-> "none", pc |-> "idle", key |-> "", val |-> Undefined,
   comp |-> NoResult, hadEntry |-> FALSE, ok |-> TRUE, wrote |-> FALSE,
   res |-> NoResult, conc |-> FALSE, sup |-> NoSlot]

\* A get call.  val: the value read from tier idx; ref: the set call whose
\* computation get returned; hit: the tier that had the value; the rest is
\* taken down when the call is made: expect (the value of an undisturbed
\* set younger than its ttl), expired (such a set is older than its ttl),
\* pend (the set call whose computation, registered last, is unresolved);
\* deleted: del(key) was called after this call had read a value from a tier
\* and before it settled.
IdleGet ==
  [pc |-> "idle", key |-> "", val |-> Undefined, idx |-> 0, ok |-> TRUE,
   ref |-> NoSlot, hit |-> -1, res |-> NoResult, expect |-> Undefined,
   expired |-> FALSE, pend |-> NoSlot, deleted |-> FALSE]

NoLast == [op |-> "none", val |-> Undefined, age |-> 0, lo |-> 0, hi |-> 0]
Rems == 0 .. SetMax(TtlOptions)
NoOrphans == [r \in Rems |-> 0]
RECURSIVE SumUpTo(_, _)
SumUpTo(f, r) == IF r < 0 THEN 0 ELSE f[r] + SumUpTo(f, r - 1)
OrphanCount(k) == SumUpTo(orphans[k], SetMax(TtlOptions))

\* A set of k is in flight in a slot other than s.
OtherSetInFlight(s, k) ==
  \E o \in SetSlots \ {s} :
    sets[o].key = k /\ sets[o].pc \notin {"idle", "done"}

\* ---------------------------------- CacheManager of part_005: state ----
\* A number that may be undefined.
NoNumber == [def |-> FALSE, n |-> 0]
Number(n) == [def |-> TRUE, n |-> n]

\* A tier (CacheInterface), a MemoryCache (memory) or a FileSystemCache: its
\* rejectionSafe and isShared flags, its default ttl (this.ttl), the value
\* it holds for the key, the ttl kept with the value (data.ttl of a
\* MemoryCache) and the delay of the timer armed for the key.
NoCache ==
  [memory |-> TRUE, rejectionSafe |-> TRUE, isShared |-> FALSE, ttl |-> 0,
   val |-> Undefined, dataTtl |-> NoNumber, timer |-> NoNumber]

\* What a call returned (by: the tier whose failure it rejected with).
Returned(v) == [st |-> "ok", v |-> v, by |-> -1]
Threw(i) == [st |-> "err", v |-> Undefined, by |-> i]
NotReturned == [st |-> "none", v |-> Undefined, by |-> -1]

\* The duration handed to updateTtl: NaN, a number n, or n - Date.now().
NoDuration == [kind |-> "none", n |-> 0]
\* An operation the callback issues on a tier.
NoOp == [kind |-> "none", ttl |-> NoDuration]

\* The get call.  i, v: the loop variables; ttls: what the tiers' getTtl
\* returned when the call started; first: the lowest tier that returned a
\* value; fill[mi]: the backfilling set on tier mi; recon: the callback that
\* reconciles the ttls, maxIndex and longestTtl what it computed; rops[i]:
\* the operation that callback issued on tier i.
IdleCGet ==
  [pc |-> "idle", i |-> 0, v |-> Undefined, ttls |-> [i \in Tiers |-> 0],
   first |-> -1, hitIndex |-> 0, fill |-> [i \in Tiers |-> "none"],
   recon |-> "none", maxIndex |-> -1, longestTtl |-> NoNumber,
   rops |-> [i \in Tiers |-> NoOp], res |-> NotReturned]
\* The set call.  wr[i]: the set on tier i.
IdleCSet ==
  [pc |-> "idle", val |-> Undefined, wr |-> [i \in Tiers |-> "none"],
   res |-> NotReturned]
\* The updateTtl call.  ttl: the argument; finalTtl: what it resolved to;
\* vals: the values the tiers held when it was called; touched: a set of
\* another call has written a tier since.
IdleCUpd ==
  [pc |-> "idle", ttl |-> NoNumber, finalTtl |-> 0,
   vals |-> [i \in Tiers |-> Undefined], touched |-> FALSE]

InitInside ==
  /\ store = [i \in Tiers |-> [k \in Keys |-> Undefined]]
  /\ wentries = [i \in Tiers |-> [k \in Keys |-> NoEntry]]
  /\ entries = [k \in Keys |-> NoEntry]
  /\ orphans = [k \in Keys |-> NoOrphans]
  /\ mapping = [k \in Keys |-> NoSlot]
  /\ sets = [s \in SetSlots |-> IdleSet]
  /\ gets = [g \in GetSlots |-> IdleGet]
  /\ last = [k \in Keys |-> NoLast]
  /\ latest = [k \in Keys |-> NoSlot]
  /\ calls = 0

\* ------------------------------------------ Ref and computedRef: state ---
\* a and b are Refs, c is computedRef(() => Math.max(a.value, b.value),
\* [a, b]), as in test/reactive.spec.ts.
NumListeners == 2
Deps == {"a", "b"}
Refs == Deps \cup {"c"}
RefValues == 0 .. 2
NoAsg == [ref |-> "", old |-> 0, new |-> 0]
NoneHeard == [r \in Refs |-> <<>>]

\* The calculate function of the computed Ref.
calculateFirst(r) == r["a"]
calculate(r) == IF r["a"] >= r["b"] THEN r["a"] ELSE r["b"]

InitReactive ==
  /\ refs \in {r \in [Refs -> RefValues] : r["c"] = calculate(r)}
  /\ listeners = [r \in Refs |-> 0]
  /\ heard = NoneHeard
  /\ asg = NoAsg
InitOutside ==
  /\ probe = NoProbe
  /\ kinds = [i \in Tiers |-> "memory"]
  /\ dret = NoDel
  /\ caches = [i \in Tiers |-> NoCache]
  /\ cget = IdleCGet
  /\ cset = IdleCSet
  /\ cupd = IdleCUpd
  /\ refs = [r \in Refs |-> 0]
  /\ listeners = [r \in Refs |-> 0]
  /\ heard = NoneHeard
  /\ asg = NoAsg

Init ==
  /\ InitInside
  /\ InitOutside

\* A set of k is in flight.
SetInFlight(k) ==
  \E s \in SetSlots : sets[s].key = k /\ sets[s].pc \notin {"idle", "done"}
\* A call that is made while a set of k is in flight disturbs that set.
Disturbed(k) == IF SetInFlight(k) THEN [NoLast EXCEPT !.op = "disturbed"] ELSE NoLast
\* A client makes a call on k.
Touch(k) == [last EXCEPT ![k] = Disturbed(k)]
Call == calls < MaxCalls /\ calls' = calls + 1
\* Slot s is free: its call is done and no get waits for its computation.
IsFreeSet(s) ==
  /\ sets[s].pc \in {"idle", "done"}
  /\ \A g \in GetSlots : ~(gets[g].pc = "get_prom" /\ gets[g].ref = s)
  /\ \A k \in Keys : mapping[k] # s
\* A new set call takes the lowest free slot.
FreeSet(s) == IsFreeSet(s) /\ \A o \in SetSlots : o < s => ~IsFreeSet(o)
FreeGet(g) == gets[g].pc \in {"idle", "done"}

\* ------------------------------------------- CacheManager (part_003) -----
\* c.set(key, value) on every tier of the set T, in one synchronous pass over
\* the tiers: the wrappers and stores it leaves, and whether any call threw.
RECURSIVE FanOutSet(_, _, _, _, _)
FanOutSet(T, w, st, k, v) ==
  IF T = {}
  THEN [w |-> w, st |-> st, ok |-> TRUE]
  ELSE LET i == SetMin(T)
           r == WrapperSet(w[i], st[i], k, v, NoOptions)
           rest == FanOutSet(T \ {i}, [w EXCEPT ![i] = r.w],
                             [st EXCEPT ![i] = r.st], k, v)
       IN  [rest EXCEPT !.ok = rest.ok /\ ~r.threw]

\* CacheManager.set, up to its await: the Entry is looked up and set is
\* called on every tier.
SuperSetCall(s, rec, k, v) ==
  LET f == FanOutSet(Tiers, wentries, store, k, v)
  IN  /\ wentries' = f.w
      /\ store' = f.st
      /\ sets' = [sets EXCEPT ![s] =
                    [rec EXCEPT !.pc = "set_wait", !.key = k, !.val = v,
                                !.hadEntry = entries[k].present,
                                !.ok = f.ok, !.wrote = TRUE]]

\* The set call whose computation, registered last for k, is unresolved.
Pending(k) ==
  IF latest[k] # NoSlot /\ sets[latest[k]].pc = "prom_wait"
  THEN latest[k] ELSE NoSlot

\* set(key, value) with a direct value is called.
SetCall(s, k, v) ==
  /\ FreeSet(s)
  /\ Call
  /\ SuperSetCall(s, [IdleSet EXCEPT !.kind = "set", !.sup = Pending(k)], k, v)
  /\ last' = Touch(k)
  /\ UNCHANGED <<outside, entries, orphans, mapping, gets, latest>>

\* The ttl Refs of the tiers that have an entry for the key.
TierTtls(k) ==
  {wentries[i][k].ttl : i \in {j \in Tiers : wentries[j][k].present}}

\* The ttl of a new Entry: computedRef of the maximum of those Refs;
\* Math.max() of no argument is -Infinity.
ComputedTtl(k) == IF TierTtls(k) = {} THEN -1 ELSE SetMax(TierTtls(k))

\* this.entries.set(key, newEntry): the Entry it replaces, if any, keeps its
\* timer armed, and nothing refers to that timer any more.
OrphansAfterReplace(k) ==
  IF Armed(entries[k])
  THEN [orphans[k] EXCEPT ![entries[k].rem] = @ + 1]
  ELSE orphans[k]

\* The Entry map after CacheManager.set has resumed: a call that found no
\* Entry when it started stores a new one.
EntriesAfterSet(o) ==
  IF o.ok /\ ~o.hadEntry
  THEN [entries EXCEPT ![o.key] =
          NewEntry(ComputedTtl(o.key), Num(ComputedTtl(o.key)))]
  ELSE entries

\* CacheManager.set resumes after Promise.all of the tiers' set calls.
SetResume(s) ==
  LET o == sets[s]
      k == o.key
      created == o.ok /\ ~o.hadEntry
      res == IF o.ok THEN Fulfilled(o.val) ELSE Rejected(TypeError)
  IN  /\ o.pc = "set_wait"
      /\ created /\ Armed(entries[k]) => OrphanCount(k) < MaxOrphans
      /\ entries' = EntriesAfterSet(o)
      /\ orphans' = IF created
                    THEN [orphans EXCEPT ![k] = OrphansAfterReplace(k)]
                    ELSE orphans
      /\ sets' = [sets EXCEPT ![s] =
                    [o EXCEPT !.pc = IF o.kind = "setp" THEN "finally" ELSE "done",
                              !.res = res]]
      /\ last' = IF OtherSetInFlight(s, k) THEN last
                 ELSE IF o.kind = "set" /\ o.ok /\ last[k].op # "disturbed"
                 THEN [last EXCEPT ![k] =
                         [op |-> "set", val |-> o.val, age |-> 0,
                          lo |-> SetMin({wentries[i][k].ttl : i \in Tiers}),
                          hi |-> SetMax({wentries[i][k].ttl : i \in Tiers})]]
                 ELSE [last EXCEPT ![k] = NoLast]
      /\ UNCHANGED <<outside, store, wentries, mapping, gets, latest, calls>>

\* del(key): cancel the Entry's timer and drop the Entry.
DelEntries(k) == [entries EXCEPT ![k] = NoEntry]

\* A get of k that has read a value from a tier has not settled.
HitInProgress(g, k) ==
  /\ gets[g].key = k
  /\ gets[g].pc \in {"get_scan", "get_fill"}
  /\ Truthy(gets[g].val)

\* del(key) is called; it has no await.
MgrDel(k) ==
  /\ Call
  /\ entries' = DelEntries(k)
  /\ last' = [last EXCEPT ![k] =
                IF SetInFlight(k) THEN Disturbed(k)
                ELSE [NoLast EXCEPT !.op = "del"]]
  /\ gets' = [g \in GetSlots |->
                IF HitInProgress(g, k)
                THEN [gets[g] EXCEPT !.deleted = TRUE] ELSE gets[g]]
  /\ UNCHANGED <<outside, store, wentries, orphans, mapping, sets, latest>>

\* What is taken down about a get call when it is made.
NewGet(k) ==
  [IdleGet EXCEPT
     !.key = k,
     !.expect = IF last[k].op = "set" /\ last[k].age < last[k].lo
                THEN last[k].val ELSE Undefined,
     !.expired = last[k].op = "set" /\ last[k].age > last[k].hi,
     !.pend = IF latest[k] # NoSlot /\ sets[latest[k]].pc = "prom_wait"
              THEN latest[k] ELSE NoSlot]

\* CacheManager.get, up to its first await: without an Entry it returns
\* undefined; with one it calls get on tier 0.
SuperGetCall(g, k) ==
  IF ~entries[k].present
  THEN /\ gets' = [gets EXCEPT ![g] =
                     [NewGet(k) EXCEPT !.pc = "done", !.res = Fulfilled(Undefined)]]
       /\ UNCHANGED wentries
  ELSE /\ gets' = [gets EXCEPT ![g] =
                     [NewGet(k) EXCEPT !.pc = "get_scan",
                                       !.val = StoreRead(store[0], k)]]
       /\ wentries' = [wentries EXCEPT ![0][k] = WrapperGetEntry(@)]

\* The loop of CacheManager.get resumes with the value tier idx returned.
GetScanResume(g) ==
  LET o == gets[g]
      k == o.key
      next == o.idx + 1
      missed == IF Truthy(o.val) THEN 0 .. (o.idx - 1) ELSE 0 .. o.idx
      f == FanOutSet(missed, wentries, store, k, o.val)
  IN  /\ o.pc = "get_scan"
      /\ IF ~Truthy(o.val) /\ next < NumTiers
         THEN \* a miss: the next tier is asked
              /\ gets' = [gets EXCEPT ![g] =
                            [o EXCEPT !.val = StoreRead(store[next], k),
                                      !.idx = next]]
              /\ wentries' = [wentries EXCEPT ![next][k] = WrapperGetEntry(@)]
              /\ store' = store
         ELSE IF o.val # Undefined
         THEN \* a value: set is called on every tier that missed
              /\ gets' = [gets EXCEPT ![g] =
                            [o EXCEPT !.pc = "get_fill", !.ok = f.ok,
                                      !.hit = IF Truthy(o.val) THEN o.idx ELSE -1]]
              /\ wentries' = f.w
              /\ store' = f.st
         ELSE \* every tier missed
              /\ gets' = [gets EXCEPT ![g] =
                            [o EXCEPT !.pc = "done", !.res = Fulfilled(Undefined)]]
              /\ UNCHANGED <<wentries, store>>
      /\ UNCHANGED <<outside, entries, orphans, mapping, sets, last, latest, calls>>

\* CacheManager.get resumes after Promise.all of the backfilling set calls.
GetFillResume(g) ==
  LET o == gets[g]
  IN  /\ o.pc = "get_fill"
      /\ gets' = [gets EXCEPT ![g] =
                    [o EXCEPT !.pc = "done",
                              !.res = IF o.ok THEN Fulfilled(o.val)
                                      ELSE Rejected(TypeError)]]
      /\ UNCHANGED <<outside, store, wentries, entries, orphans, mapping, sets, last,
                     latest, calls>>

\* -------------------------------------- CacheManagerPromise (part_003) ----
\* set(key, computation): the computation is registered and awaited.
SetPromiseCall(s, k) ==
  /\ FreeSet(s)
  /\ Call
  /\ mapping' = [mapping EXCEPT ![k] = s]
  /\ latest' = [latest EXCEPT ![k] = s]
  /\ LET others == {o \in SetSlots \ {s} :
                       sets[o].pc = "prom_wait" /\ sets[o].key = k}
     IN  sets' = [o \in SetSlots |->
                    IF o = s
                    THEN [IdleSet EXCEPT !.kind = "setp", !.pc = "prom_wait",
                                         !.key = k, !.conc = others # {}]
                    ELSE IF o \in others THEN [sets[o] EXCEPT !.conc = TRUE]
                    ELSE IF sets[o].sup = s THEN [sets[o] EXCEPT !.sup = NoSlot]
                    ELSE sets[o]]
  /\ last' = Touch(k)
  /\ UNCHANGED <<outside, store, wentries, entries, orphans, gets>>

\* The computation resolves to v and the then-callback calls super.set.
PromiseResolves(s, v) ==
  /\ sets[s].pc = "prom_wait"
  /\ SuperSetCall(s, [sets[s] EXCEPT !.comp = Fulfilled(v)], sets[s].key, v)
  /\ UNCHANGED <<outside, entries, orphans, mapping, gets, last, latest, calls>>

\* The computation rejects with f: the then-callback is skipped.
PromiseRejects(s, f) ==
  /\ sets[s].pc = "prom_wait"
  /\ sets' = [sets EXCEPT ![s] =
                [@ EXCEPT !.pc = "finally", !.comp = Rejected(f),
                          !.res = Rejected(f)]]
  /\ UNCHANGED <<outside, store, wentries, entries, orphans, mapping, gets, last,
                 latest, calls>>

\* A finally-callback that leaves the mapping as it is.
MappingKept(s, k) == mapping

\* The finally-callback: delete this.mapping[key].
MappingAfterFinally(s, k) == [mapping EXCEPT ![k] = NoSlot]

Finally(s) ==
  /\ sets[s].pc = "finally"
  /\ mapping' = MappingAfterFinally(s, sets[s].key)
  /\ sets' = [sets EXCEPT ![s] = [@ EXCEPT !.pc = "done"]]
  /\ last' = IF OtherSetInFlight(s, sets[s].key) THEN last
             ELSE [last EXCEPT ![sets[s].key] = NoLast]
  /\ UNCHANGED <<outside, store, wentries, entries, orphans, gets, latest, calls>>

\* get(key) is called: a registered computation is returned as it is;
\* otherwise super.get.
GetCall(g, k) ==
  /\ FreeGet(g)
  /\ Call
  /\ IF mapping[k] # NoSlot
     THEN /\ gets' = [gets EXCEPT ![g] =
                        [NewGet(k) EXCEPT !.pc = "get_prom", !.ref = mapping[k]]]
          /\ UNCHANGED wentries
     ELSE SuperGetCall(g, k)
  /\ UNCHANGED <<outside, store, entries, orphans, mapping, sets, last, latest>>

\* The promise get returned settles as the computation did.
GetPromResume(g) ==
  /\ gets[g].pc = "get_prom"
  /\ sets[gets[g].ref].comp.st # "none"
  /\ gets' = [gets EXCEPT ![g] =
                [@ EXCEPT !.pc = "done", !.res = sets[gets[g].ref].comp]]
  /\ UNCHANGED <<outside, store, wentries, entries, orphans, mapping, sets, last,
                 latest, calls>>

\* ----------------------------------------------------------- timers ------
\* The timer of a tier's entry runs: this.del(key).
TierTimeout(i, k) ==
  /\ Armed(wentries[i][k])
  /\ wentries[i][k].rem = 0
  /\ LET r == TimeoutCallback(wentries[i], store[i], k)
     IN  /\ wentries' = [wentries EXCEPT ![i] = r.w]
         /\ store' = [store EXCEPT ![i] = r.st]
  /\ UNCHANGED <<outside, entries, orphans, mapping, sets, gets, last, latest, calls>>

\* The timer of the coordinator's Entry runs: this.del(key).
MgrTimeout(k) ==
  /\ Armed(entries[k])
  /\ entries[k].rem = 0
  /\ entries' = DelEntries(k)
  /\ UNCHANGED <<outside, store, wentries, orphans, mapping, sets, gets, last, latest,
                 calls>>

\* The timer of a replaced Entry runs: this.del(key), on the Entry of now.
OrphanTimeout(k) ==
  /\ orphans[k][0] > 0
  /\ orphans' = [orphans EXCEPT ![k][0] = @ - 1]
  /\ entries' = DelEntries(k)
  /\ UNCHANGED <<outside, store, wentries, mapping, sets, gets, last, latest, calls>>

StampAfterTick(ago) == IF ago < MaxStamp THEN ago + 1 ELSE ago
TickEntry(e) ==
  IF ~e.present
  THEN e
  ELSE [e EXCEPT !.rem = IF Armed(e) THEN @ - 1 ELSE @,
                 !.createdAgo = StampAfterTick(@),
                 !.modifiedAgo = StampAfterTick(@)]

\* One millisecond passes; no armed timer is due.
Tick ==
  /\ \A i \in Tiers, k \in Keys : Armed(wentries[i][k]) => wentries[i][k].rem > 0
  /\ \A k \in Keys : Armed(entries[k]) => entries[k].rem > 0
  /\ \A k \in Keys : orphans[k][0] = 0
  /\ wentries' = [i \in Tiers |-> [k \in Keys |-> TickEntry(wentries[i][k])]]
  /\ entries' = [k \in Keys |-> TickEntry(entries[k])]
  /\ orphans' = [k \in Keys |->
                   [r \in Rems |->
                      IF r + 1 \in Rems THEN orphans[k][r + 1] ELSE 0]]
  /\ last' = [k \in Keys |->
                IF last[k].op \in {"set", "del"} /\ last[k].age < MaxAge
                THEN [last[k] EXCEPT !.age = @ + 1] ELSE last[k]]
  /\ UNCHANGED <<outside, store, mapping, sets, gets, latest, calls>>

\* ------------------------------------- calls made on a tier directly -----
\* tier.set(key, value, options) by the owner of the tier.
TierSet(i, k, v, opt) ==
  /\ Call
  /\ LET r == WrapperSet(wentries[i], store[i], k, v, opt)
     IN  /\ ~r.threw
         /\ wentries' = [wentries EXCEPT ![i] = r.w]
         /\ store' = [store EXCEPT ![i] = r.st]
  /\ last' = Touch(k)
  /\ UNCHANGED <<outside, entries, orphans, mapping, sets, gets, latest>>

\* tier.del(key) by the owner of the tier.
TierDel(i, k) ==
  /\ Call
  /\ LET r == WrapperDel(wentries[i], store[i], k)
     IN  /\ wentries' = [wentries EXCEPT ![i] = r.w]
         /\ store' = [store EXCEPT ![i] = r.st]
  /\ last' = Touch(k)
  /\ UNCHANGED <<outside, entries, orphans, mapping, sets, gets, latest>>

\* tier.clear() by the owner of the tier.
TierClear(i) ==
  /\ Call
  /\ LET r == WrapperClear(wentries[i], store[i])
     IN  /\ wentries' = [wentries EXCEPT ![i] = r.w]
         /\ store' = [store EXCEPT ![i] = r.st]
  /\ last' = [k \in Keys |-> Disturbed(k)]
  /\ UNCHANGED <<outside, entries, orphans, mapping, sets, gets, latest>>

Next ==
  \/ \E s \in SetSlots, k \in Keys, v \in Values : SetCall(s, k, v)
  \/ \E s \in SetSlots : SetResume(s)
  \/ \E k \in Keys : MgrDel(k)
  \/ \E g \in GetSlots, k \in Keys : GetCall(g, k)
  \/ \E g \in GetSlots : GetScanResume(g)
  \/ \E g \in GetSlots : GetFillResume(g)
  \/ \E s \in SetSlots, k \in Keys : SetPromiseCall(s, k)
  \/ \E s \in SetSlots, v \in Values : PromiseResolves(s, v)
  \/ \E s \in SetSlots, f \in Failures : PromiseRejects(s, f)
  \/ \E s \in SetSlots : Finally(s)
  \/ \E g \in GetSlots : GetPromResume(g)
  \/ \E i \in Tiers, k \in Keys : TierTimeout(i, k)
  \/ \E k \in Keys : MgrTimeout(k)
  \/ \E k \in Keys : OrphanTimeout(k)
  \/ Tick
  \/ \E i \in Tiers, k \in Keys, v \in Values, n \in TtlOptions :
       TierSet(i, k, v, TtlOption(n))
  \/ \E i \in Tiers, k \in Keys : TierDel(i, k)
  \/ \E i \in Tiers : TierClear(i)

Spec == Init /\ [][Next]_vars

\* ------------------------------------------- ttl options of every size ---
\* The ttl options tried: numbers and duration strings on both sides of the
\* largest delay, 2147483648 written as 2 * 1073741824, days and seconds
\* as duration strings.
TtlInputs ==
  {TtlNumber(n, 1) : n \in {0, 2, 3, TIMEOUT_MAX - 1, TIMEOUT_MAX}}
    \cup {TtlNumber(2, 1073741824), TtlNumber(3, 1000000000)}
    \cup {TtlString(n, 86400000) : n \in {24, 25}}
    \cup {TtlString(n, 1000) : n \in {2, 2147483, 2147484}}
    \cup {TtlString(0, 1)}

\* tier.set(key, value, {ttl}) by the owner of the tier, with any of these
\* options; a call that throws changes nothing.
TtlSet(i, k, v, t) ==
  /\ Call
  /\ LET r == WrapperSet(wentries[i], store[i], k, v, TtlOptionOf(t))
     IN  /\ wentries' = [wentries EXCEPT ![i] = r.w]
         /\ store' = [store EXCEPT ![i] = r.st]
         /\ probe' = [pc |-> "set", tier |-> i, key |-> k, ttl |-> t,
                      threw |-> r.threw]
  /\ last' = Touch(k)
  /\ UNCHANGED <<deleting, flagged, reactive, entries, orphans, mapping, sets, gets, latest>>

\* The tiers are written with ttl options of every size, and the coordinator
\* sets on top of them, one call at a time; no time passes.
NextTtl ==
  \/ \E i \in Tiers, k \in Keys, v \in Values, t \in TtlInputs : TtlSet(i, k, v, t)
  \/ \E i \in Tiers, k \in Keys : TierDel(i, k)
  \/ \E s \in SetSlots, k \in Keys, v \in Values :
       ~SetInFlight(k) /\ SetCall(s, k, v)
  \/ \E s \in SetSlots : SetResume(s)

SpecTtl == Init /\ [][NextTtl]_vars

\* ------------------------------------------- del on either store --------
\* tier.del(key) by the owner of the tier, and how its promise settles:
\* the timer is cleared and the entry dropped, then this.store.delete(key)
\* decides the outcome.
DelCall(i, k) ==
  /\ Call
  /\ LET r == WrapperDel(wentries[i], store[i], k)
         d == StoreDeleteSettles(kinds[i], store[i], k)
     IN  /\ wentries' = [wentries EXCEPT ![i] = r.w]
         /\ store' = [store EXCEPT ![i] = r.st]
         /\ dret' = [pc |-> "del", tier |-> i, key |-> k,
                     had |-> store[i][k] # Undefined,
                     threw |-> d.threw, ret |-> d.ret]
  /\ last' = Touch(k)
  /\ UNCHANGED <<probe, kinds, flagged, reactive, entries, orphans, mapping,
                 sets, gets, latest>>

\* Each tier wraps a MemoryStore or a FileStore.
InitDel ==
  /\ InitInside
  /\ probe = NoProbe
  /\ kinds \in [Tiers -> StoreKinds]
  /\ dret = NoDel
  /\ caches = [i \in Tiers |-> NoCache]
  /\ cget = IdleCGet
  /\ cset = IdleCSet
  /\ cupd = IdleCUpd
  /\ refs = [r \in Refs |-> 0]
  /\ listeners = [r \in Refs |-> 0]
  /\ heard = NoneHeard
  /\ asg = NoAsg

\* The owner of the tiers sets, deletes and clears, and time passes.
NextDel ==
  \/ \E i \in Tiers, k \in Keys, v \in Values, n \in TtlOptions :
       TierSet(i, k, v, TtlOption(n))
  \/ \E i \in Tiers, k \in Keys : DelCall(i, k)
  \/ \E i \in Tiers : TierClear(i)
  \/ \E i \in Tiers, k \in Keys : TierTimeout(i, k)
  \/ Tick

SpecDel == InitDel /\ [][NextDel]_vars

\* ------------------------------------------- CacheManager of part_005 ----
\* The tiers carry the flags rejectionSafe and isShared.  A tier that is not
\* rejectionSafe may reject any get or set; one that is never rejects.
CacheTtls == {0, 1}
\* MemoryCache.set(key, value): a timer without a delay, which is 1 ms, and
\* data.ttl = msForTtl(undefined).  FileSystemCache.set(key, value): the file
\* is written and a timer of this.ttl armed.
CacheSet(c, v) ==
  IF c.memory
  THEN [c EXCEPT !.val = v, !.dataTtl = NoNumber, !.timer = Number(1)]
  ELSE [c EXCEPT !.val = v, !.timer = Number(TimerDelay(Num(c.ttl)))]

\* getTtl(key).  MemoryCache: data.ttl ?? this.ttl of the data it holds, else
\* this.ttl.  FileSystemCache: _idleTimeout of the timer of the key, else
\* this.ttl.
GetTtl(c) ==
  IF c.memory
  THEN IF c.val # Undefined /\ c.dataTtl.def THEN c.dataTtl.n ELSE c.ttl
  ELSE IF c.timer.def THEN c.timer.n ELSE c.ttl
\* getTtl() without a key: this.ttl.
GetDefaultTtl(c) == c.ttl

\* updateTtl(key, ttl): the timer of a key the tier holds is cleared and
\* armed again with ttl; a MemoryCache keeps data.ttl as it is.
CacheUpdateTtl(c, ttl) ==
  IF c.memory
  THEN IF c.val # Undefined THEN [c EXCEPT !.timer = Number(TimerDelay(Num(ttl)))] ELSE c
  ELSE IF c.timer.def THEN [c EXCEPT !.timer = Number(TimerDelay(Num(ttl)))] ELSE c

\* The tiers at the start: a MemoryCache is rejectionSafe and not shared; a
\* tier holds nothing, or "bar" as its set leaves it.
EmptyCaches ==
  {c \in [memory : BOOLEAN, rejectionSafe : BOOLEAN, isShared : BOOLEAN,
          ttl : CacheTtls, val : {Undefined}, dataTtl : {NoNumber},
          timer : {NoNumber}] :
     c.memory => c.rejectionSafe /\ ~c.isShared}
CacheStates == EmptyCaches \cup {CacheSet(c, "bar") : c \in EmptyCaches}

\* A rejectionSafe that one tier is enough for.
someRejectionSafe == \E i \in Tiers : caches[i].rejectionSafe
\* get rejectionSafe(): every tier is.
rejectionSafe == \A i \in Tiers : caches[i].rejectionSafe
\* An isShared that takes every tier.
everyIsShared == \A i \in Tiers : caches[i].isShared
\* get isShared(): some tier is.
isShared == \E i \in Tiers : caches[i].isShared

\* A scan that leaves the loop at the first tier that has a value.
ScanBreaks(i, v) ==
  IF v # Undefined
  THEN [done |-> TRUE, i |-> i]
  ELSE [done |-> i + 1 >= NumTiers, i |-> i + 1]
\* for (; i < this.caches.length; i++): the loop has no break, a value
\* found or not, so it ends after the last tier with i = caches.length.
ScanNext(i, v) == [done |-> i + 1 >= NumTiers, i |-> i + 1]

\* values.reduce((acc, cur, index) => acc === undefined ? 0 :
\* cur > values[acc] ? index : acc), without an initial value: acc starts as
\* values[0], and values[acc] is undefined, which nothing exceeds, when acc
\* is no index of values.
RECURSIVE MaxIndexFrom(_, _, _)
MaxIndexFrom(values, acc, index) ==
  IF index >= Len(values)
  THEN acc
  ELSE MaxIndexFrom(values,
                    IF acc + 1 \in DOMAIN values /\ values[index + 1] > values[acc + 1]
                    THEN index ELSE acc,
                    index + 1)
maxIndex(values) == MaxIndexFrom(values, values[1], 1)

\* The sequence ttls.slice(hitIndex) (values[j + 1] is values[j] of the code).
TtlsFrom(ttls, hitIndex) == [j \in 1 .. (NumTiers - hitIndex) |-> ttls[hitIndex + j - 1]]

\* The first loop of the callback, from hi: the index it stops at.
RECURSIVE BreakAt(_, _, _)
BreakAt(hi, len, mx) ==
  IF hi >= len \/ hi = mx THEN hi ELSE BreakAt(hi + 1, len, mx)

\* const longestTtl = values[maxIndex]: undefined when maxIndex is no index.
LongestTtl(values, mx) ==
  IF mx + 1 \in DOMAIN values THEN Number(values[mx + 1]) ELSE NoNumber

\* Math.min(Date.now() + longestTtl, values[hi]) - Date.now(): NaN when
\* either is undefined; else values[hi] - Date.now(), because a ttl, at most
\* 2147483647, is below Date.now(), the milliseconds since 1970.
Duration(longest, values, hi) ==
  IF ~longest.def \/ hi + 1 \notin DOMAIN values
  THEN [kind |-> "NaN", n |-> 0]
  ELSE [kind |-> "minusNow", n |-> values[hi + 1]]

\* The callback of Promise.all(ttls.slice(hitIndex)): the operation it
\* issues on each tier; none when there are no values.  The loops run hi from
\* hitIndex over the slice caches = this.caches.slice(hitIndex).
ReconcileOps(ttls, hitIndex) ==
  LET values == TtlsFrom(ttls, hitIndex)
      len == NumTiers - hitIndex
      mx == maxIndex(values)
      longest == LongestTtl(values, mx)
      stop == BreakAt(hitIndex, len, mx)
      update(hi) == [kind |-> "updateTtl", ttl |-> Duration(longest, values, hi)]
      del == [kind |-> "del", ttl |-> NoDuration]
  IN  IF len = 0
      THEN [maxIndex |-> -1, longestTtl |-> NoNumber, rops |-> [i \in Tiers |-> NoOp]]
      ELSE [maxIndex |-> mx,
            longestTtl |-> longest,
            rops |-> [i \in Tiers |->
                       LET hi == i - hitIndex
                       IN  IF hi >= hitIndex /\ hi < stop
                           THEN update(hi)
                           ELSE IF hi > stop /\ hi < len
                           THEN IF caches[i].isShared THEN del ELSE update(hi)
                           ELSE NoOp]]

\* A set of another call writes a tier while updateTtl is in flight.
Touched ==
  IF cupd.pc # "idle" THEN [cupd EXCEPT !.touched = TRUE] ELSE cupd

\* await Promise.all(promises) is over: every backfilling set has succeeded
\* and the callback has returned.
FillsDone(c) ==
  /\ \A i \in Tiers : c.fill[i] \in {"none", "ok"}
  /\ c.recon = "done"
SettleCGet(c) ==
  IF c.pc = "await" /\ FillsDone(c)
  THEN [c EXCEPT !.pc = "done", !.res = Returned(c.v)]
  ELSE c

\* get(key) is called: getTtl is called on every tier, get on the first.
CGet ==
  /\ cget.pc = "idle"
  /\ cget' = [cget EXCEPT !.pc = "scan",
                          !.ttls = [i \in Tiers |-> GetTtl(caches[i])]]
  /\ UNCHANGED <<inside, probe, deleting, reactive, cupd, caches, cset>>

\* The loop resumes with the value of tier i.  After the loop: undefined is
\* returned if v is; else set is called on every tier below hitIndex, the
\* callback is registered, and the call awaits them unless rejectionSafe.
CScan ==
  LET v == caches[cget.i].val
      n == ScanNext(cget.i, v)
      first == IF cget.first = -1 /\ v # Undefined THEN cget.i ELSE cget.first
  IN  /\ cget.pc = "scan"
      /\ cget' =
           IF ~n.done
           THEN [cget EXCEPT !.i = n.i, !.v = v, !.first = first]
           ELSE IF v = Undefined
           THEN [cget EXCEPT !.i = n.i, !.v = v, !.first = first, !.pc = "done",
                             !.res = Returned(Undefined)]
           ELSE [cget EXCEPT
                   !.i = n.i, !.v = v, !.first = first, !.hitIndex = n.i,
                   !.fill = [mi \in Tiers |-> IF mi < n.i THEN "pending" ELSE "none"],
                   !.recon = "pending",
                   !.pc = IF rejectionSafe THEN "done" ELSE "await",
                   !.res = IF rejectionSafe THEN Returned(v) ELSE NotReturned]
      /\ UNCHANGED <<inside, probe, deleting, reactive, cupd, caches, cset>>

\* The get of tier i rejects: the await in the loop throws.
CScanFails ==
  /\ cget.pc = "scan"
  /\ ~caches[cget.i].rejectionSafe
  /\ cget' = [cget EXCEPT !.pc = "done", !.res = Threw(cget.i)]
  /\ UNCHANGED <<inside, probe, deleting, reactive, cupd, caches, cset>>

\* The backfilling set of tier mi succeeds.
CFill(mi) ==
  /\ cget.fill[mi] = "pending"
  /\ caches' = [caches EXCEPT ![mi] = CacheSet(@, cget.v)]
  /\ cget' = SettleCGet([cget EXCEPT !.fill[mi] = "ok"])
  /\ cupd' = Touched
  /\ UNCHANGED <<inside, probe, deleting, reactive, cset>>

\* The backfilling set of tier mi rejects; Promise.all, if the call awaits
\* it, rejects with the first failure.
CFillFails(mi) ==
  /\ cget.fill[mi] = "pending"
  /\ ~caches[mi].rejectionSafe
  /\ cget' = IF cget.pc = "await"
             THEN [cget EXCEPT !.fill[mi] = "failed", !.pc = "done",
                               !.res = Threw(mi)]
             ELSE [cget EXCEPT !.fill[mi] = "failed"]
  /\ UNCHANGED <<inside, probe, deleting, reactive, cupd, caches, cset>>

\* The callback runs.  What it issues is pushed to promises after
\* Promise.all(promises) has taken its elements.
CReconcile ==
  /\ cget.recon = "pending"
  /\ LET r == ReconcileOps(cget.ttls, cget.hitIndex)
     IN  cget' = SettleCGet([cget EXCEPT !.recon = "done",
                                          !.maxIndex = r.maxIndex,
                                          !.longestTtl = r.longestTtl,
                                          !.rops = r.rops])
  /\ UNCHANGED <<inside, probe, deleting, reactive, cupd, caches, cset>>

\* set(key, value) with a direct value: set is called on every tier.
CSet(v) ==
  /\ cset.pc = "idle"
  /\ cset' = [cset EXCEPT !.pc = "await", !.val = v,
                          !.wr = [i \in Tiers |-> "pending"]]
  /\ UNCHANGED <<inside, probe, deleting, reactive, cupd, caches, cget>>

\* The set of tier i succeeds; the call returns after the last one.
CWrite(i) ==
  /\ cset.wr[i] = "pending"
  /\ caches' = [caches EXCEPT ![i] = CacheSet(@, cset.val)]
  /\ cupd' = Touched
  /\ cset' = LET c == [cset EXCEPT !.wr[i] = "ok"]
             IN  IF c.pc = "await" /\ \A j \in Tiers : c.wr[j] = "ok"
                 THEN [c EXCEPT !.pc = "done", !.res = Returned(c.val)]
                 ELSE c
  /\ UNCHANGED <<inside, probe, deleting, reactive, cget>>

\* The set of tier i rejects; Promise.all rejects with the first failure.
CWriteFails(i) ==
  /\ cset.wr[i] = "pending"
  /\ ~caches[i].rejectionSafe
  /\ cset' = IF cset.pc = "await"
             THEN [cset EXCEPT !.wr[i] = "failed", !.pc = "done", !.res = Threw(i)]
             ELSE [cset EXCEPT !.wr[i] = "failed"]
  /\ UNCHANGED <<inside, probe, deleting, reactive, cupd, caches, cget>>

InitCaches ==
  /\ InitInside
  /\ probe = NoProbe
  /\ kinds = [i \in Tiers |-> "memory"]
  /\ dret = NoDel
  /\ caches \in [Tiers -> CacheStates]
  /\ cget = IdleCGet
  /\ cset = IdleCSet
  /\ cupd = IdleCUpd
  /\ refs = [r \in Refs |-> 0]
  /\ listeners = [r \in Refs |-> 0]
  /\ heard = NoneHeard
  /\ asg = NoAsg

\* updateTtl(key, ttl): ttl = msForTtl(ttl).  With a ttl, finalTtl is the ttl
\* and every tier's updateTtl runs before the call first yields; without
\* one the call waits for this.getTtl().
UpdateTtls ==
  {NoNumber} \cup {Number(n) : n \in 1 .. MaxUpdateTtl}
CUpdateTtl(ttl) ==
  /\ cupd.pc = "idle"
  /\ IF ttl.def
     THEN /\ caches' = [i \in Tiers |-> CacheUpdateTtl(caches[i], ttl.n)]
          /\ cupd' = [cupd EXCEPT !.pc = "await", !.ttl = ttl, !.finalTtl = ttl.n,
                                  !.vals = [i \in Tiers |-> caches[i].val]]
     ELSE /\ cupd' = [cupd EXCEPT !.pc = "getTtl", !.ttl = ttl,
                                  !.vals = [i \in Tiers |-> caches[i].val]]
          /\ UNCHANGED caches
  /\ UNCHANGED <<inside, probe, deleting, reactive, cget, cset>>

\* getTtl() without a key: the greatest of the tiers' defaults.
AggregateTtl == SetMax({GetDefaultTtl(caches[i]) : i \in Tiers})

\* await this.getTtl() is over: finalTtl is the aggregate, and every tier's
\* updateTtl runs.
CUpdateTtlAggregate ==
  /\ cupd.pc = "getTtl"
  /\ caches' = [i \in Tiers |-> CacheUpdateTtl(caches[i], AggregateTtl)]
  /\ cupd' = [cupd EXCEPT !.pc = "await", !.finalTtl = AggregateTtl]
  /\ UNCHANGED <<inside, probe, deleting, reactive, cget, cset>>

\* await Promise.all(...) of the tiers' updateTtl is over.
CUpdateTtlDone ==
  /\ cupd.pc = "await"
  /\ cupd' = [cupd EXCEPT !.pc = "done"]
  /\ UNCHANGED <<inside, probe, deleting, reactive, caches, cget, cset>>

NextCaches ==
  \/ CGet
  \/ CScan
  \/ CScanFails
  \/ \E mi \in Tiers : CFill(mi)
  \/ \E mi \in Tiers : CFillFails(mi)
  \/ CReconcile
  \/ \E v \in Values : CSet(v)
  \/ \E i \in Tiers : CWrite(i)
  \/ \E i \in Tiers : CWriteFails(i)
  \/ \E ttl \in UpdateTtls : CUpdateTtl(ttl)
  \/ CUpdateTtlAggregate
  \/ CUpdateTtlDone

SpecCaches == InitCaches /\ [][NextCaches]_vars

\* ------------------------------------------------ Ref and computedRef ----
\* A set that goes on whatever the value is.
AlwaysDiffers(old, new) == TRUE
\* if (oldValue === newValue) return;
Differs(old, new) == old # new

\* this.listeners.forEach(listener => listener(oldValue, newValue)): one
\* call to each of the n listeners, in the order they were hooked.
Fire(n, old, new) == [l \in 1 .. n |-> [listener |-> l, old |-> old, new |-> new]]

\* hook(listener) on Ref r.
Hook(r) ==
  /\ listeners[r] < NumListeners
  /\ listeners' = [listeners EXCEPT ![r] = @ + 1]
  /\ UNCHANGED <<inside, probe, deleting, flagged, refs, heard, asg>>

\* d.value = n for a dependency d: nothing happens when n is the value d
\* has; else d takes it, its listeners are called, and the listener
\* computedRef hooked on d assigns calculate() to the computed Ref, which in
\* turn does nothing or calls its listeners.
Assign(d, n) ==
  LET old == refs[d]
      set == [refs EXCEPT ![d] = n]
      c == calculate(set)
  IN  /\ asg' = [ref |-> d, old |-> old, new |-> n]
      /\ IF Differs(old, n)
         THEN /\ refs' = IF Differs(refs["c"], c) THEN [set EXCEPT !["c"] = c] ELSE set
              /\ heard' = [r \in Refs |->
                             IF r = d THEN Fire(listeners[d], old, n)
                             ELSE IF r = "c" /\ Differs(refs["c"], c)
                             THEN Fire(listeners["c"], refs["c"], c)
                             ELSE <<>>]
         ELSE /\ refs' = refs
              /\ heard' = NoneHeard
      /\ UNCHANGED <<inside, probe, deleting, flagged, listeners>>

InitRefs ==
  /\ InitInside
  /\ probe = NoProbe
  /\ kinds = [i \in Tiers |-> "memory"]
  /\ dret = NoDel
  /\ caches = [i \in Tiers |-> NoCache]
  /\ cget = IdleCGet
  /\ cset = IdleCSet
  /\ cupd = IdleCUpd
  /\ InitReactive

NextRefs ==
  \/ \E r \in Refs : Hook(r)
  \/ \E d \in Deps, n \in RefValues : Assign(d, n)

SpecRefs == InitRefs /\ [][NextRefs]_vars

\* ------------------------------------------------------- properties ------
\* The tiers whose store holds a value for k.
Holders(k) == {i \in Tiers : store[i][k] # Undefined}
\* The value the lowest tier holding k holds; undefined when none holds it.
LowestHeld(k) ==
  IF Holders(k) = {} THEN Undefined ELSE store[SetMin(Holders(k))][k]
\* The armed timers of the coordinator that will run del(k).
LiveTimers(k) == (IF Armed(entries[k]) THEN 1 ELSE 0) + OrphanCount(k)
\* A set call with a computation has not settled yet.
SetpInFlight(s) ==
  sets[s].kind = "setp" /\ sets[s].pc \in {"prom_wait", "set_wait", "finally"}

\* C1.  Read-after-write: a get(k) that was called after set(k, v) with a
\* direct value had completed, before the tiers' ttl had passed, with no
\* other call on k from that set to the end of the get, returns v.
ReadAfterWrite ==
  \A g \in GetSlots :
    (/\ gets[g].pc = "done"
     /\ gets[g].expect # Undefined
     /\ last[gets[g].key].op = "set"
     /\ last[gets[g].key].val = gets[g].expect)
    => gets[g].res = Fulfilled(gets[g].expect)

\* C2.  Expiration: once more than the tiers' ttl has passed since set(k, v)
\* completed, with no set, del or clear since, no tier holds a value for k
\* and a get(k) called then returns undefined.
Expiration ==
  /\ \A k \in Keys :
       (last[k].op = "set" /\ last[k].age > last[k].hi) => Holders(k) = {}
  /\ \A g \in GetSlots :
       (gets[g].pc = "done" /\ gets[g].expired /\ last[gets[g].key].op = "set")
       => gets[g].res = Fulfilled(Undefined)

\* C3.  Guarded removal: the computation registered last for k stays in the
\* mapping for as long as it is unresolved; the settling of an earlier
\* computation for k does not remove it.
GuardedRemoval ==
  \A k \in Keys, s \in SetSlots :
    (/\ latest[k] = s
     /\ sets[s].kind = "setp"
     /\ sets[s].key = k
     /\ sets[s].pc = "prom_wait")
    => mapping[k] = s

\* C4.  Coalescing: a set(k, computation) that ran while another computation
\* for k was unresolved resolves to the value its own computation resolved
\* to, and the mapping has no entry for k once no such call is in flight.
Coalescing ==
  /\ \A s \in SetSlots :
       (/\ sets[s].kind = "setp"
        /\ sets[s].conc
        /\ sets[s].pc = "done"
        /\ sets[s].comp.st = "ok")
       => sets[s].res = sets[s].comp
  /\ \A k \in Keys :
       (\A s \in SetSlots : ~(SetpInFlight(s) /\ sets[s].key = k))
       => mapping[k] = NoSlot

\* C5.  A get(k) called while the computation registered last for k is
\* unresolved returns that computation, and does not resolve to undefined.
GetDuringPending ==
  \A g \in GetSlots :
    (gets[g].pc # "idle" /\ gets[g].pend # NoSlot)
    => /\ gets[g].ref = gets[g].pend
       /\ gets[g].pc = "done" => gets[g].res \notin {NoResult, Fulfilled(Undefined)}

\* C6.  When the computation of set(k, computation) has rejected, the step
\* that settles the call rejects it with the failure of the computation, the
\* call has called set on no tier and the step writes no tier, and the step
\* leaves the mapping without an entry for k.
RejectedSetSettles(s) ==
  /\ sets[s].kind = "setp"
  /\ sets[s].comp.st = "err"
  /\ sets[s].pc = "finally"
  /\ sets'[s].pc = "done"
RejectionPropagates ==
  [][\A s \in SetSlots :
       RejectedSetSettles(s)
       => /\ sets'[s].res = sets[s].comp
          /\ sets'[s].res.st = "err"
          /\ ~sets'[s].wrote
          /\ store' = store /\ wentries' = wentries
          /\ mapping'[sets[s].key] = NoSlot]_vars
\* A set call whose computation rejected has settled.
RejectedSetDone ==
  \E s \in SetSlots :
    sets[s].kind = "setp" /\ sets[s].comp.st = "err" /\ sets[s].pc = "done"

\* C7.  At most one armed timer of the coordinator will run del(k), for
\* every key k, in every reachable state.
OneLiveTimer == \A k \in Keys : LiveTimers(k) <= 1

\* C8.  After del(k) of the coordinator, with no set of k in flight and no
\* call on k since: no tier holds a value for k, the coordinator has no Entry
\* for k, and no armed timer of the coordinator will run del(k).
AfterDel ==
  \A k \in Keys :
    last[k].op = "del"
    => Holders(k) = {} /\ ~entries[k].present /\ LiveTimers(k) = 0

\* C9.  Backfill: a get(k) that missed tier 0 and found a value in a deeper
\* tier resolves to that value, every backfilling set having succeeded.
Backfill ==
  \A g \in GetSlots :
    (gets[g].pc = "done" /\ gets[g].hit >= 1)
    => gets[g].ok /\ gets[g].res = Fulfilled(gets[g].val)

\* C10.  A get(k) that settles without awaiting anything resolves to the
\* value of the lowest tier holding k in the state it is called in, and to
\* undefined only when no tier holds k.
GetWithoutAwait(g) ==
  /\ gets[g].pc \in {"idle", "done"}
  /\ calls' = calls + 1
  /\ gets'[g] # gets[g]
  /\ gets'[g].pc = "done"
LowestHolderWins ==
  [][\A g \in GetSlots :
       GetWithoutAwait(g)
       => gets'[g].res = Fulfilled(LowestHeld(gets'[g].key))]_vars

\* C11.  Backfill does not resurrect a deleted key: when del(k) was called
\* while a get(k) that had read a value from a tier was in progress, and no
\* other call on k has been made since, no tier holds a value for k once
\* that get has settled.
NoResurrection ==
  \A g \in GetSlots :
    (/\ gets[g].pc = "done"
     /\ gets[g].deleted
     /\ last[gets[g].key].op = "del")
    => Holders(gets[g].key) = {}

\* C12.  A direct set(k, v2) made while a computation for k was unresolved
\* supersedes that computation: once the direct set has completed, a get(k)
\* does not return the computation; when the computation resolves, it
\* changes what no tier holds for k; and when its call settles, the mapping
\* has no entry for k.
Superseded(p, k) ==
  /\ sets[p].kind = "setp"
  /\ sets[p].key = k
  /\ \E s \in SetSlots :
       /\ sets[s].kind = "set"
       /\ sets[s].key = k
       /\ sets[s].pc = "done"
       /\ sets[s].res.st = "ok"
       /\ sets[s].sup = p
DirectSetSupersedes ==
  [][\A p \in SetSlots, k \in Keys :
       Superseded(p, k)
       => /\ \A g \in GetSlots :
               (sets[p].pc = "prom_wait" /\ gets'[g] # gets[g]
                  /\ calls' = calls + 1 /\ gets'[g].key = k)
               => gets'[g].ref # p
          /\ (sets[p].pc = "prom_wait" /\ sets'[p].pc = "set_wait")
             => \A i \in Tiers : store'[i][k] = store[i][k]
          /\ (sets[p].pc = "finally" /\ sets'[p].pc = "done")
             => mapping'[k] = NoSlot]_vars

\* C16. When every tier misses, get(k) returns absent, and it changes no
\* Entry record and no timer and writes no tier: a step in which a get reads a
\* miss from a tier leaves the stores, the tiers' entries, the coordinator's
\* entries and the replaced timers as they were, and the step after the last
\* tier's miss returns undefined.
ReadsMiss(g) ==
  /\ gets'[g] # gets[g]
  /\ gets'[g].pc = "get_scan"
  /\ gets'[g].val = Undefined
AllMissed(g) ==
  /\ gets[g].pc = "get_scan"
  /\ gets[g].val = Undefined
  /\ gets[g].idx = NumTiers - 1
  /\ gets'[g].pc = "done"
ClearLeavesNothing ==
  [][\A i \in Tiers :
       TierClear(i)
         => /\ StoreSize(store'[i]) = 0
            /\ \A k \in Keys : /\ ~wentries'[i][k].present
                                /\ wentries'[i][k].timeout # "armed"]_vars

\* C20. A ttl option, number or duration string, that resolves to more than
\* 2147483647 makes set throw, and the tier is left as it was (no timer
\* armed, no entry created); one at or below that is accepted, and the entry
\* a set creates carries it unchanged, as its ttl and as the delay of its
\* timer (a delay below 1 ms is 1 ms).
TtlChecked ==
  [][\A i \in Tiers, k \in Keys :
       (probe' # probe /\ probe'.tier = i /\ probe'.key = k)
         => IF ExceedsMax(probe'.ttl)
            THEN /\ probe'.threw
                 /\ wentries'[i] = wentries[i]
                 /\ store'[i] = store[i]
            ELSE /\ ~probe'.threw
                 /\ ~wentries[i][k].present
                      => LET n == probe'.ttl.n * probe'.ttl.unit
                         IN  /\ wentries'[i][k].present
                             /\ wentries'[i][k].ttl = n
                             /\ wentries'[i][k].timeout = "armed"
                             /\ wentries'[i][k].delay = TimerDelay(Num(n))]_vars
\* The same without the delay of the timer: the option is checked, and the
\* entry created carries it.
TtlCheckedOnCreate ==
  [][\A i \in Tiers, k \in Keys :
       (probe' # probe /\ probe'.tier = i /\ probe'.key = k
          /\ ~wentries[i][k].present)
         => IF ExceedsMax(probe'.ttl)
            THEN /\ probe'.threw
                 /\ wentries'[i] = wentries[i]
                 /\ store'[i] = store[i]
            ELSE /\ ~probe'.threw
                 /\ wentries'[i][k].present
                 /\ wentries'[i][k].ttl = probe'.ttl.n * probe'.ttl.unit]_vars

\* C14. The ttl the coordinator's Entry reports for a key is never below the
\* ttl reported by the tier that serves the key (the lowest tier holding a
\* value for it).
TtlMonotonic ==
  \A k \in Keys :
    entries[k].present /\ Holders(k) # {}
      => entries[k].ttl >= wentries[SetMin(Holders(k))][k].ttl

\* C18. A set(k, v) with a direct value writes every tier: when the call
\* completes, no other set of k being in flight and nobody having written or
\* deleted k in the tiers meanwhile, the call returns v and every tier holds
\* v for k.
DirectSetWritesAll ==
  [][\A s \in SetSlots :
       (/\ sets[s].kind = "set"
        /\ sets[s].pc = "set_wait"
        /\ sets'[s].pc = "done"
        /\ ~OtherSetInFlight(s, sets[s].key)
        /\ last[sets[s].key].op # "disturbed")
         => /\ sets'[s].res = Fulfilled(sets[s].val)
            /\ \A i \in Tiers : store'[i][sets[s].key] = sets[s].val]_vars

NoFailureSuppressed ==
  \A i \in Tiers :
    ~caches[i].rejectionSafe
      => /\ cget.pc = "done" /\ cget.fill[i] = "failed" => cget.res = Threw(i)
         /\ cset.pc = "done" /\ cset.wr[i] = "failed" => cset.res = Threw(i)
\* The same of the first failure only.
FirstFailureRejects ==
  /\ cget.pc = "done" /\ (\E i \in Tiers : cget.fill[i] = "failed")
       => cget.res.st = "err" /\ cget.fill[cget.res.by] = "failed"
  /\ cset.pc = "done" /\ (\E i \in Tiers : cset.wr[i] = "failed")
       => cset.res.st = "err" /\ cset.wr[cset.res.by] = "failed"

\* C21. The flags of the coordinator: rejectionSafe is true exactly when
\* every tier is rejectionSafe (no tier is not), and isShared exactly when at
\* least one tier is shared, whatever the flags of the tiers.
AggregateFlags ==
  /\ rejectionSafe <=> Cardinality({i \in Tiers : ~caches[i].rejectionSafe}) = 0
  /\ isShared <=> Cardinality({i \in Tiers : caches[i].isShared}) >= 1
\* Tiers of mixed flags, and a get that has consulted rejectionSafe and
\* awaits its backfilling sets.
MixedFlagsConsulted ==
  /\ \E i, j \in Tiers : caches[i].rejectionSafe /\ ~caches[j].rejectionSafe
  /\ \E i, j \in Tiers : caches[i].isShared /\ ~caches[j].isShared
  /\ cget.pc = "await"

\* C22. An assignment to a Ref calls its listeners, each exactly once with
\* (old, new), if and only if the new value differs from the one it has; an
\* assignment of the value it has calls no listener and changes nothing.
FiresIffDiffers ==
  [][\A d \in Deps, n \in RefValues :
       Assign(d, n)
         => IF refs[d] # n
            THEN /\ refs'[d] = n
                 /\ Len(heard'[d]) = listeners[d]
                 /\ \A l \in 1 .. listeners[d] :
                      heard'[d][l] = [listener |-> l, old |-> refs[d], new |-> n]
            ELSE /\ refs' = refs
                 /\ heard' = NoneHeard]_vars
\* A Ref with all its listeners hooked was assigned a new value and has
\* called them.
AllListenersHeard ==
  /\ asg.ref \in Deps
  /\ asg.old # asg.new
  /\ listeners[asg.ref] = NumListeners
  /\ Len(heard[asg.ref]) = NumListeners

\* C23. After any assignments to its dependencies the computed Ref equals
\* its function of their values (the maximum of a and b), and an assignment
\* calls the listeners of the computed Ref only when that result changes,
\* with the result before and after.
ComputedFollows ==
  /\ \A x \in Deps : refs["c"] >= refs[x]
  /\ \E x \in Deps : refs["c"] = refs[x]
  /\ heard["c"] # <<>>
       => \A l \in 1 .. Len(heard["c"]) :
            /\ heard["c"][l].old # heard["c"][l].new
            /\ heard["c"][l].new = refs["c"]
\* An assignment lowered the maximum and the listeners of the computed Ref
\* were called.
ComputedLowered ==
  /\ heard["c"] # <<>>
  /\ heard["c"][1].new < heard["c"][1].old

\* C24. An Entry is never partially constructed: in every state each key has,
\* in the coordinator and in each tier, either no record or a complete one,
\* whose timer is armed (neither fired nor cancelled).
EntriesComplete ==
  \A k \in Keys :
    /\ entries[k].present => entries[k].timeout = "armed"
    /\ ~entries[k].present => entries[k] = NoEntry
    /\ \A i \in Tiers :
         /\ wentries[i][k].present => wentries[i][k].timeout = "armed"
         /\ ~wentries[i][k].present => wentries[i][k] = NoEntry
\* The same of the coordinator's entries alone.
ManagerEntriesComplete ==
  \A k \in Keys :
    /\ entries[k].present => entries[k].timeout = "armed"
    /\ ~entries[k].present => entries[k] = NoEntry

\* C25. A set(k, v) on a key that already has an Entry refreshes the
\* modification timestamp of the Entry and leaves the rest of it as it was:
\* the same ttl, the same timer (which a tier starts over), no second Entry
\* and no second timer.  Of the coordinator, when its set completes, and of a
\* tier, when its set is called.
SetRefreshesOnly ==
  [][\A k \in Keys :
       /\ \A s \in SetSlots :
            (/\ sets[s].key = k
             /\ sets[s].pc = "set_wait"
             /\ sets'[s].pc \in {"done", "finally"}
             /\ sets[s].hadEntry
             /\ sets[s].ok
             /\ entries[k].present)
              => /\ entries'[k] = [entries[k] EXCEPT !.modifiedAgo = 0]
                 /\ orphans' = orphans
       /\ \A i \in Tiers, v \in Values, n \in TtlOptions :
            TierSet(i, k, v, TtlOption(n)) /\ wentries[i][k].present
              => wentries'[i][k] = [wentries[i][k] EXCEPT !.modifiedAgo = 0,
                                                           !.rem = wentries[i][k].delay]]_vars

\* The tiers from the one that hit on, their greatest ttl, and the lowest of
\* them reporting it.
FromHit == {i \in Tiers : i >= cget.first}
GreatestTtl == SetMax({cget.ttls[i] : i \in FromHit})
Reconciled == cget.recon = "done" /\ cget.first >= 0

\* C26. In the reconciliation after a hit at tier h, longestTtl is the
\* maximum of the ttls reported by the tiers at index >= h, and the tier
\* designated as holding it is the lowest such tier reporting that maximum.
LongestTtlIsMax ==
  Reconciled
    => /\ cget.longestTtl = Number(GreatestTtl)
       /\ cget.hitIndex + cget.maxIndex
            = SetMin({i \in FromHit : cget.ttls[i] = GreatestTtl})

ShorterPrivateDeleted ==
  Reconciled
    => \A i \in FromHit :
         /\ ~caches[i].isShared /\ cget.ttls[i] < GreatestTtl
              => cget.rops[i].kind = "del"
         /\ cget.ttls[i] = GreatestTtl => cget.rops[i].kind = "none"

\* C29: once updateTtl(k, d) has completed, with no set in between, every
\* tier that holds k has its timer armed to expire k after d and reports
\* getTtl(k) = d, d being the duration given or else the aggregate getTtl(),
\* and holds the value it held.
UpdateTtlReported ==
  (cupd.pc = "done" /\ ~cupd.touched) =>
    /\ cupd.finalTtl = (IF cupd.ttl.def THEN cupd.ttl.n ELSE AggregateTtl)
    /\ \A i \in Tiers :
         /\ caches[i].val = cupd.vals[i]
         /\ caches[i].val # Undefined =>
              /\ caches[i].timer = Number(TimerDelay(Num(cupd.finalTtl)))
              /\ GetTtl(caches[i]) = cupd.finalTtl

\* C30. A value written to a tier wrapper without a ttl option, the way the
\* set of the coordinator writes every tier, is stored, and the entry of the
\* tier is left with an armed timer that runs out WrapperTtl after the write,
\* the default the wrapper was constructed with.
WrittenWithoutOptions ==
  [][\A s \in SetSlots, k \in Keys, v \in Values :
       SetCall(s, k, v) =>
         \A i \in Tiers :
           /\ store'[i][k] = v
           /\ Armed(wentries'[i][k])
           /\ wentries'[i][k].rem = WrapperTtl]_vars
\* The same of a tier that already has an entry for the key, where the write
\* does not throw.
RewrittenWithoutOptions ==
  [][\A s \in SetSlots, k \in Keys, v \in Values :
       SetCall(s, k, v) =>
         \A i \in Tiers :
           Armed(wentries[i][k]) =>
             /\ store'[i][k] = v
             /\ Armed(wentries'[i][k])
             /\ wentries'[i][k].rem = WrapperTtl]_vars
\* The part that holds: a write on an armed entry stores the value.
RewriteStores ==
  [][\A s \in SetSlots, k \in Keys, v \in Values :
       SetCall(s, k, v) =>
         \A i \in Tiers :
           Armed(wentries[i][k]) => store'[i][k] = v /\ Armed(wentries'[i][k])]_vars

\* C31. In a tier wrapper, whatever set, get, del, clear and timers have done,
\* every key whose value is in the store has an entry whose eviction timer is
\* armed.
StoredIsArmed ==
  \A i \in Tiers, k \in Keys :
    store[i][k] # Undefined => Armed(wentries[i][k])
\* The part that holds: a stored value has an entry, armed or cancelled.
StoredHasEntry ==
  \A i \in Tiers, k \in Keys :
    store[i][k] # Undefined => wentries[i][k].present

\* C32. del(k) of a tier deletes k if it is there and resolves to whether
\* something was deleted; for a key that is not there it resolves to false
\* and does not reject, whichever store the tier wraps.
DelReports ==
  [][\A i \in Tiers, k \in Keys :
       DelCall(i, k) =>
         /\ store'[i][k] = Undefined
         /\ ~wentries'[i][k].present
         /\ ~dret'.threw
         /\ dret'.ret = (store[i][k] # Undefined)]_vars
\* The same of the tiers that wrap a MemoryStore, where it holds.
MemoryDelReports ==
  [][\A i \in Tiers, k \in Keys :
       DelCall(i, k) /\ kinds[i] = "memory" =>
         /\ store'[i][k] = Undefined
         /\ ~wentries'[i][k].present
         /\ ~dret'.threw
         /\ dret'.ret = (store[i][k] # Undefined)]_vars

\* C33. The "invalid state has been reached" branch of a tier's set is never
\* taken: every entry in the entries map of a tier has a timeout that is not
\* null, armed or cleared.
TimeoutNeverNull ==
  \A i \in Tiers, k \in Keys :
    wentries[i][k].present => wentries[i][k].timeout \in {"armed", "cancelled"}
\* One tier's set found an entry whose timer clear() had cleared and wrote
\* the value; another's set found an entry made a millisecond before and
\* started its timer over.
SetFoundEntries ==
  \E i, j \in Tiers, k \in Keys :
    /\ wentries[i][k].present
    /\ wentries[i][k].timeout = "cancelled"
    /\ store[i][k] # Undefined
    /\ Armed(wentries[j][k])
    /\ wentries[j][k].createdAgo = 1
    /\ wentries[j][k].rem = wentries[j][k].delay
====
